---- MODULE Spec2Model ----
(***************************************************************************)
(* Model of postgresql_storage::store(block) and                           *)
(* postgresql_storage::organize_blockchain over the `blocks` table         *)
(* (src/storage/postgresql_storage.cpp).                                   *)
(*                                                                         *)
(* A row of `blocks` is a record                                           *)
(*   [block_id, block_hash, prev_block_hash, depth, span_left, span_right] *)
(* and the table is the sequence of rows in block_id order (block_id is a  *)
(* DEFAULT serial column and rows are never deleted, so block_id equals    *)
(* the position of the row).                                               *)
(***************************************************************************)
EXTENDS Integers, Sequences, FiniteSets, TLC

\* ------------------------------------------------------------------ bounds
\* number of distinct block hashes (1 is the hash of the seeded root)
NumHashes == 4
\* largest number of rows in `blocks`
MaxBlocks == 4
\* cap on span values (every allocator shift raises them by one)
MaxSpan == 3
\* cap of the counter of completed invocations since the last arrival
MaxPasses == 3

\* ------------------------------------------------------------- data model
\* SQL NULL of the columns depth, span_left, span_right
NULL == -1
\* prev_block of the root (no row has this hash)
NullHash == 0
RootHash == 1
Hashes == 1..NumHashes
PrevHashes == Hashes \cup {NullHash}

VARIABLES
    blocks,     \* committed contents of table `blocks`
    pc,         \* position of the single control thread
    queue,      \* block_ids of result set `res` not yet fetched
    chain_id,   \* local chain_id of the fork branch while the guard is open
    txn,        \* contents of `blocks` as seen inside the open transaction
    start,      \* history: blocks when the latest invocation began
    atArrival,  \* history: blocks right after the latest row was inserted
    passes,     \* history: completed invocations since the latest insertion
    last,       \* history: the latest step taken, [op, id]
    seen,       \* history: block_ids evaluated by the latest invocation
    calls       \* history: invocations begun since the latest insertion

vars ==
    <<blocks, pc, queue, chain_id, txn, start, atArrival, passes, last,
      seen, calls>>

Ids(b) == 1..Len(b)

Min(a, b) == IF a <= b THEN a ELSE b

Linked(r) == r.depth # NULL

Pending(r) == r.depth = NULL

\* the externally seeded root row: depth 0, interval (0,0)
RootRow ==
    [block_id |-> 1, block_hash |-> RootHash, prev_block_hash |-> NullHash,
     depth |-> 0, span_left |-> 0, span_right |-> 0]

\* INSERT INTO blocks (block_id, block_hash, ..., prev_block_hash, ...)
\* VALUES (DEFAULT, ?, ...): depth and the span columns are left NULL
NewRow(b, h, p) ==
    [block_id |-> Len(b) + 1, block_hash |-> h, prev_block_hash |-> p,
     depth |-> NULL, span_left |-> NULL, span_right |-> NULL]

\* hash_block_header(block) of an arriving block: a hash already in the
\* table, or a fresh one. Hashes are only ever compared for equality, so the
\* fresh hash is named by the least value not in the table.
ArrivingHashes(b) ==
    {h \in Hashes :
        \/ \E i \in Ids(b) : b[i].block_hash = h
        \/ \A g \in Hashes :
              g < h => \E i \in Ids(b) : b[i].block_hash = g}

\* variant of HashPresent: WHERE prev_block_hash=?
HashPresentAsPrev(b, h) == \E i \in Ids(b) : b[i].prev_block_hash = h

\* SELECT 1 FROM blocks WHERE block_hash=?
HashPresent(b, h) == \E i \in Ids(b) : b[i].block_hash = h

\* SELECT block_id, prev_block_hash FROM blocks WHERE depth IS NULL
\* ORDER BY block_id ASC
RECURSIVE PendingFrom(_, _)
PendingFrom(b, i) ==
    IF i > Len(b) THEN <<>>
    ELSE IF Pending(b[i]) THEN <<i>> \o PendingFrom(b, i + 1)
    ELSE PendingFrom(b, i + 1)

\* variant of PendingIds: ORDER BY block_id DESC
RECURSIVE PendingDownFrom(_, _)
PendingDownFrom(b, i) ==
    IF i < 1 THEN <<>>
    ELSE IF Pending(b[i]) THEN <<i>> \o PendingDownFrom(b, i - 1)
    ELSE PendingDownFrom(b, i - 1)

PendingIdsDescending(b) == PendingDownFrom(b, Len(b))

PendingIds(b) == PendingFrom(b, 1)

\* variant of ParentResult: the condition `AND depth IS NOT NULL` is missing
ParentResultAnyDepth(b, prev_block_hash) ==
    {i \in Ids(b) : b[i].block_hash = prev_block_hash}

\* variant of ParentResult: the row is looked up by prev_block_hash
ParentResultWrongColumn(b, prev_block_hash) ==
    {i \in Ids(b) :
        b[i].prev_block_hash = prev_block_hash /\ b[i].depth # NULL}

\* variant of ParentResult: AND depth IS NULL
ParentResultPendingOnly(b, prev_block_hash) ==
    {i \in Ids(b) : b[i].block_hash = prev_block_hash /\ b[i].depth = NULL}

\* SELECT block_id, depth, span_left, span_right FROM blocks
\* WHERE block_hash=? AND depth IS NOT NULL   (the ids of the rows found)
ParentResult(b, prev_block_hash) ==
    {i \in Ids(b) : b[i].block_hash = prev_block_hash /\ b[i].depth # NULL}

\* the row fetched from a non-empty parent_result
ParentRow(b, prev_block_hash) ==
    b[CHOOSE i \in ParentResult(b, prev_block_hash) : TRUE]

\* variant of HasChildren: AND depth >= ?
HasChildrenDepthGE(b, parent_span_left, parent_span_right, parent_depth) ==
    \E i \in Ids(b) :
        /\ b[i].span_left # NULL /\ b[i].span_left >= parent_span_left
        /\ b[i].span_right # NULL /\ b[i].span_right <= parent_span_right
        /\ b[i].depth # NULL /\ b[i].depth >= parent_depth

\* variant of HasChildren: AND depth < ?
HasChildrenDepthLess(b, parent_span_left, parent_span_right, parent_depth) ==
    \E i \in Ids(b) :
        /\ b[i].span_left # NULL /\ b[i].span_left >= parent_span_left
        /\ b[i].span_right # NULL /\ b[i].span_right <= parent_span_right
        /\ b[i].depth # NULL /\ b[i].depth < parent_depth

\* SELECT 1 FROM blocks WHERE span_left >= ? AND span_right <= ?
\* AND depth > ? LIMIT 1   (a comparison with NULL selects nothing)
HasChildren(b, parent_span_left, parent_span_right, parent_depth) ==
    \E i \in Ids(b) :
        /\ b[i].span_left # NULL /\ b[i].span_left >= parent_span_left
        /\ b[i].span_right # NULL /\ b[i].span_right <= parent_span_right
        /\ b[i].depth # NULL /\ b[i].depth > parent_depth

\* variant of UpdateSpanLeft: SET span_left=span_left-1
UpdateSpanLeftDecrement(b, c) ==
    [i \in Ids(b) |->
        IF b[i].span_left # NULL /\ b[i].span_left >= c
        THEN [b[i] EXCEPT !.span_left = @ - 1]
        ELSE b[i]]

\* variant of UpdateSpanLeft: WHERE span_left > ?
UpdateSpanLeftStrict(b, c) ==
    [i \in Ids(b) |->
        IF b[i].span_left # NULL /\ b[i].span_left > c
        THEN [b[i] EXCEPT !.span_left = @ + 1]
        ELSE b[i]]

\* UPDATE blocks SET span_left=span_left+1 WHERE span_left >= ?
UpdateSpanLeft(b, c) ==
    [i \in Ids(b) |->
        IF b[i].span_left # NULL /\ b[i].span_left >= c
        THEN [b[i] EXCEPT !.span_left = @ + 1]
        ELSE b[i]]

\* variant of UpdateSpanRight: WHERE span_right > ?
UpdateSpanRightStrict(b, c) ==
    [i \in Ids(b) |->
        IF b[i].span_right # NULL /\ b[i].span_right > c
        THEN [b[i] EXCEPT !.span_right = @ + 1]
        ELSE b[i]]

\* variant of UpdateSpanRight: SET span_left=span_left+1 copied from the
\* first update
UpdateSpanRightCopied(b, c) ==
    [i \in Ids(b) |->
        IF b[i].span_right # NULL /\ b[i].span_right >= c
        THEN [b[i] EXCEPT !.span_left = @ + 1]
        ELSE b[i]]

\* UPDATE blocks SET span_right=span_right+1 WHERE span_right >= ?
UpdateSpanRight(b, c) ==
    [i \in Ids(b) |->
        IF b[i].span_right # NULL /\ b[i].span_right >= c
        THEN [b[i] EXCEPT !.span_right = @ + 1]
        ELSE b[i]]

\* variant of UpdateLinked: the parent's depth is stored, without the + 1
UpdateLinkedParentDepth(b, depth, c, block_id) ==
    [i \in Ids(b) |->
        IF b[i].block_id = block_id
        THEN [b[i] EXCEPT !.depth = depth - 1,
                          !.span_left = c, !.span_right = c]
        ELSE b[i]]

\* variant of UpdateLinked: values bound as << chain_id << depth << chain_id
UpdateLinkedBindOrder(b, depth, c, block_id) ==
    [i \in Ids(b) |->
        IF b[i].block_id = block_id
        THEN [b[i] EXCEPT !.depth = c, !.span_left = depth, !.span_right = c]
        ELSE b[i]]

\* variant of UpdateLinked: the block_id bound is the one of parent_result
UpdateLinkedParentRow(b, depth, c, block_id) ==
    [i \in Ids(b) |->
        IF b[i].block_hash = b[block_id].prev_block_hash /\ b[i].depth # NULL
        THEN [b[i] EXCEPT !.depth = depth, !.span_left = c, !.span_right = c]
        ELSE b[i]]

\* variant of UpdateLinked: depth is bound to the two span columns as well
UpdateLinkedChainIdDepth(b, depth, c, block_id) ==
    [i \in Ids(b) |->
        IF b[i].block_id = block_id
        THEN [b[i] EXCEPT !.depth = depth,
                          !.span_left = depth, !.span_right = depth]
        ELSE b[i]]

\* variant of UpdateLinked: the clause `WHERE block_id=?` is missing
UpdateLinkedNoWhere(b, depth, c, block_id) ==
    [i \in Ids(b) |->
        [b[i] EXCEPT !.depth = depth, !.span_left = c, !.span_right = c]]

\* UPDATE blocks SET depth=?, span_left=?, span_right=? WHERE block_id=?
UpdateLinked(b, depth, c, block_id) ==
    [i \in Ids(b) |->
        IF b[i].block_id = block_id
        THEN [b[i] EXCEPT !.depth = depth, !.span_left = c, !.span_right = c]
        ELSE b[i]]

\* largest span value stored in the table
RECURSIVE MaxSpanFrom(_, _)
MaxSpanFrom(b, i) ==
    IF i > Len(b) THEN 0
    ELSE LET m == MaxSpanFrom(b, i + 1)
         IN  IF b[i].span_right # NULL /\ b[i].span_right > m
             THEN b[i].span_right ELSE m

\* ------------------------------------------------------------------ state
Init ==
    /\ blocks = <<RootRow>>
    /\ pc = "idle"
    /\ queue = <<>>
    /\ chain_id = NULL
    /\ txn = <<>>
    /\ start = <<RootRow>>
    /\ atArrival = <<RootRow>>
    /\ passes = 0
    /\ last = [op |-> "init", id |-> 0]
    /\ seen = <<>>
    /\ calls = 0

\* store(block, handle_store): a block whose hash is already in the table is
\* dropped (early return), any other block becomes one new pending row
StoreBlock(h, p) ==
    /\ pc = "idle"
    /\ IF HashPresent(blocks, h)
       THEN /\ last' = [op |-> "store_dup", id |-> 0]
            /\ UNCHANGED <<blocks, atArrival, passes, calls>>
       ELSE /\ Len(blocks) < MaxBlocks
            /\ blocks' = Append(blocks, NewRow(blocks, h, p))
            /\ atArrival' = blocks'
            /\ passes' = 0
            /\ calls' = 0
            /\ last' = [op |-> "store", id |-> Len(blocks) + 1]
    /\ UNCHANGED <<pc, queue, chain_id, txn, start, seen>>

\* organize_blockchain(): the query for the pending rows
OrganizeBegin ==
    /\ pc = "idle"
    /\ MaxSpanFrom(blocks, 1) + Len(PendingIds(blocks)) <= MaxSpan
    /\ queue' = PendingIds(blocks)
    /\ pc' = "scan"
    /\ start' = blocks
    /\ last' = [op |-> "begin", id |-> 0]
    /\ seen' = <<>>
    /\ calls' = Min(calls + 1, MaxBlocks)
    /\ UNCHANGED <<blocks, chain_id, txn, atArrival, passes>>

\* loop body, `if (parent_result.empty()) continue;`
EvalOrphan ==
    /\ pc = "scan" /\ queue # <<>>
    /\ LET block_id == Head(queue)
           prev_block_hash == blocks[block_id].prev_block_hash
       IN  /\ ParentResult(blocks, prev_block_hash) = {}
           /\ last' = [op |-> "orphan", id |-> block_id]
           /\ seen' = Append(seen, block_id)
    /\ queue' = Tail(queue)
    /\ UNCHANGED <<blocks, pc, chain_id, txn, start, atArrival, passes, calls>>

\* loop body, `if (has_children)`: the guard is opened for the two updates
EvalFork ==
    /\ pc = "scan" /\ queue # <<>>
    /\ LET block_id == Head(queue)
           prev_block_hash == blocks[block_id].prev_block_hash
       IN  /\ ParentResult(blocks, prev_block_hash) # {}
           /\ LET parent == ParentRow(blocks, prev_block_hash)
              IN  /\ HasChildren(blocks, parent.span_left, parent.span_right,
                                 parent.depth)
                  /\ chain_id' = parent.span_right
           /\ last' = [op |-> "fork", id |-> block_id]
           /\ seen' = Append(seen, block_id)
    /\ txn' = blocks
    /\ pc' = "guard"
    /\ UNCHANGED <<blocks, queue, start, atArrival, passes, calls>>

\* variant of ShiftLeft: no guard is open, the update is committed on its own
ShiftLeftAutocommit ==
    /\ pc = "guard"
    /\ blocks' = UpdateSpanLeft(blocks, chain_id)
    /\ txn' = blocks'
    /\ pc' = "left_done"
    /\ UNCHANGED <<queue, chain_id, start, atArrival, passes, last, seen,
                   calls>>

\* first update inside the guard
ShiftLeft ==
    /\ pc = "guard"
    /\ txn' = UpdateSpanLeft(txn, chain_id)
    /\ pc' = "left_done"
    /\ UNCHANGED <<blocks, queue, chain_id, start, atArrival, passes, last,
                   seen, calls>>

\* second update inside the guard
ShiftRight ==
    /\ pc = "left_done"
    /\ txn' = UpdateSpanRight(txn, chain_id)
    /\ pc' = "right_done"
    /\ UNCHANGED <<blocks, queue, chain_id, start, atArrival, passes, last,
                   seen, calls>>

\* guard.commit(): both updates become visible at once
Commit ==
    /\ pc = "right_done"
    /\ blocks' = txn
    /\ txn' = <<>>
    /\ chain_id' = NULL
    /\ queue' = Tail(queue)
    /\ pc' = "scan"
    /\ UNCHANGED <<start, atArrival, passes, last, seen, calls>>

\* a statement or the commit fails inside the guard: the exception unwinds
\* organize_blockchain, ~transaction() rolls the open transaction back
StoreFailure ==
    /\ pc \in {"guard", "left_done", "right_done"}
    /\ txn' = <<>>
    /\ chain_id' = NULL
    /\ queue' = <<>>
    /\ pc' = "idle"
    /\ last' = [op |-> IF pc = "left_done" THEN "failure_between"
                       ELSE "failure", id |-> last.id]
    /\ UNCHANGED <<blocks, start, atArrival, passes, seen, calls>>

\* loop body, else branch: the record is linked below its parent
EvalLink ==
    /\ pc = "scan" /\ queue # <<>>
    /\ LET block_id == Head(queue)
           prev_block_hash == blocks[block_id].prev_block_hash
       IN  /\ ParentResult(blocks, prev_block_hash) # {}
           /\ LET parent == ParentRow(blocks, prev_block_hash)
                  depth == parent.depth + 1
              IN  /\ ~HasChildren(blocks, parent.span_left, parent.span_right,
                                  parent.depth)
                  /\ IF parent.span_left = parent.span_right
                     THEN /\ blocks' = UpdateLinked(blocks, depth,
                                                    parent.span_left, block_id)
                          /\ queue' = Tail(queue)
                          /\ pc' = "scan"
                          /\ last' = [op |-> "link", id |-> block_id]
                     ELSE \* BITCOIN_ASSERT fails: the process is aborted
                          /\ pc' = "aborted"
                          /\ last' = [op |-> "assert", id |-> block_id]
                          /\ UNCHANGED <<blocks, queue>>
           /\ seen' = Append(seen, block_id)
    /\ UNCHANGED <<chain_id, txn, start, atArrival, passes, calls>>

\* res.next() returns false: organize_blockchain returns
OrganizeEnd ==
    /\ pc = "scan" /\ queue = <<>>
    /\ pc' = "idle"
    /\ passes' = Min(passes + 1, MaxPasses)
    /\ last' = [op |-> "end", id |-> 0]
    /\ UNCHANGED <<blocks, queue, chain_id, txn, start, atArrival, seen, calls>>

Next ==
    \/ \E h \in ArrivingHashes(blocks), p \in PrevHashes : StoreBlock(h, p)
    \/ OrganizeBegin
    \/ EvalOrphan
    \/ EvalFork
    \/ ShiftLeft
    \/ ShiftRight
    \/ Commit
    \/ StoreFailure
    \/ EvalLink
    \/ OrganizeEnd

Spec == Init /\ [][Next]_vars

\* the table as the constructor finds it: seeded with the linked root, or
\* empty (organize_blockchain itself never creates a root)
InitAnyStore ==
    /\ blocks \in {<<RootRow>>, <<>>}
    /\ pc = "idle"
    /\ queue = <<>>
    /\ chain_id = NULL
    /\ txn = <<>>
    /\ start = blocks
    /\ atArrival = blocks
    /\ passes = 0
    /\ last = [op |-> "init", id |-> 0]
    /\ seen = <<>>
    /\ calls = 0

SpecAnyStore == InitAnyStore /\ [][Next]_vars

\* ------------------------------------------------------------- type check
TypeOK ==
    /\ pc \in {"idle", "scan", "guard", "left_done", "right_done", "aborted"}
    /\ Len(blocks) <= MaxBlocks
    /\ \A i \in Ids(blocks) : blocks[i].block_id = i
    /\ passes \in 0..MaxPasses

\* ---------------------------------------------- vocabulary of the claims
\* rows whose hash is the prev_hash of row i (hashes are unique: at most one)
ParentsOf(b, i) == {j \in Ids(b) : b[j].block_hash = b[i].prev_block_hash}

\* row a is reached from row i in 1..n steps along prev_hash
RECURSIVE AncestorWithin(_, _, _, _)
AncestorWithin(b, a, i, n) ==
    IF n = 0 THEN FALSE
    ELSE \E j \in ParentsOf(b, i) : j = a \/ AncestorWithin(b, a, j, n - 1)

IsAncestor(b, a, i) == AncestorWithin(b, a, i, Len(b))

IsSet(r) == r.depth >= 0

LinkedIds(b) == {i \in Ids(b) : IsSet(b[i])}

\* the pending rows whose prev_hash is the hash of a linked row
Linkable(b) ==
    {i \in Ids(b) : ~IsSet(b[i]) /\ \E j \in ParentsOf(b, i) : IsSet(b[j])}

\* ----------------------------------------------------------------- claims

\* C1 (containment invariant): in every reachable state of the store, for
\* all linked records A and B with A an ancestor of B along prev_hash,
\* A.span_left <= B.span_left <= B.span_right <= A.span_right.
C1_Containment ==
    \A a \in LinkedIds(blocks), i \in LinkedIds(blocks) :
        IsAncestor(blocks, a, i) =>
            /\ blocks[a].span_left <= blocks[i].span_left
            /\ blocks[i].span_left <= blocks[i].span_right
            /\ blocks[i].span_right <= blocks[a].span_right

\* a grandchild is linked below the root and an allocator shift has been
\* committed since
C1_Witness ==
    /\ pc = "idle"
    /\ \E a \in LinkedIds(blocks), i \in LinkedIds(blocks) :
        /\ IsAncestor(blocks, a, i)
        /\ blocks[a].depth = 0 /\ blocks[i].depth = 2
        /\ blocks[i].span_left >= 1

\* C5 (depth invariant): every linked record other than the root has a
\* parent record, found by its prev_hash, that is linked, and its depth is
\* the parent's depth plus one.
C5_DepthInvariant ==
    \A i \in LinkedIds(blocks) :
        i # 1 =>
            /\ ParentsOf(blocks, i) # {}
            /\ \A j \in ParentsOf(blocks, i) :
                IsSet(blocks[j]) /\ blocks[i].depth = blocks[j].depth + 1

\* a chain of two records is linked below the root
C5_Witness ==
    \E i \in LinkedIds(blocks), j \in LinkedIds(blocks) :
        /\ j \in ParentsOf(blocks, i)
        /\ j # 1
        /\ blocks[i].depth = 2

\* C8 (linked is terminal): no step of store(block) or organize_blockchain
\* unsets or changes the depth of a record whose depth is set.
C8_LinkedIsTerminal ==
    [][\A i \in LinkedIds(blocks) :
          i \in Ids(blocks') /\ blocks'[i].depth = blocks[i].depth]_vars

\* a record linked before the latest invocation began is still linked after
\* that invocation linked a further record and a block arrived
C8_Witness ==
    /\ last.op = "store"
    /\ \E i \in LinkedIds(start) : i # 1 /\ IsSet(blocks[i])
    /\ LinkedIds(start) # LinkedIds(blocks)

\* C6 (no-fork linking): when the record at the head of the scan has a
\* linked parent and no linked record lies inside the parent's interval with
\* a greater depth, that step links the record with depth parent.depth + 1
\* and interval (c, c), c = parent.span_left, and changes no other record.
C6_NoForkLinking ==
    [][\A i \in Ids(blocks), j \in LinkedIds(blocks) :
          ( /\ pc = "scan" /\ queue # <<>> /\ Head(queue) = i
            /\ j \in ParentsOf(blocks, i)
            /\ ~\E k \in LinkedIds(blocks) :
                  /\ blocks[k].span_left >= blocks[j].span_left
                  /\ blocks[k].span_right <= blocks[j].span_right
                  /\ blocks[k].depth > blocks[j].depth )
          => /\ Len(blocks') = Len(blocks)
             /\ blocks'[i].depth = blocks[j].depth + 1
             /\ blocks'[i].span_left = blocks[j].span_left
             /\ blocks'[i].span_right = blocks[j].span_left
             /\ \A k \in Ids(blocks) \ {i} :
                   /\ blocks'[k].depth = blocks[k].depth
                   /\ blocks'[k].span_left = blocks[k].span_left
                   /\ blocks'[k].span_right = blocks[k].span_right]_vars

\* a record has just been linked at depth 2 below a parent whose chain id
\* had been shifted away from 0
C6_Witness ==
    /\ last.op = "link"
    /\ blocks[last.id].depth = 2
    /\ blocks[last.id].span_left = 1
    /\ blocks[last.id].span_right = 1

\* C7 (orphans stay pending without error): the evaluation of a pending
\* record whose prev_hash is the hash of no linked record changes no record
\* and raises no error, and no step at all links such a record.
C7_OrphansStayPending ==
    [][\A i \in Ids(blocks) :
          (~IsSet(blocks[i]) /\ i \notin Linkable(blocks))
          => /\ i \in Ids(blocks') /\ ~IsSet(blocks'[i])
             /\ (pc = "scan" /\ queue # <<>> /\ Head(queue) = i)
                => /\ blocks' = blocks
                   /\ pc' = "scan"
                   /\ last'.op \notin {"assert", "failure", "failure_between"}]_vars

\* two invocations have completed and a record whose prev_hash matches no
\* row, evaluated last, is still pending, next to a record that was linked
C7_Witness ==
    /\ last.op = "end"
    /\ passes >= 2
    /\ \E i \in Ids(blocks) :
        /\ ~IsSet(blocks[i])
        /\ ParentsOf(blocks, i) = {}
        /\ i = Len(blocks)
    /\ \E k \in LinkedIds(blocks) : k # 1

\* C9 as stated: after a record is linked no step changes its span_left,
\* its span_right can only grow.
C9_SpanLeftFrozen ==
    [][\A i \in LinkedIds(blocks) :
          /\ blocks'[i].span_left = blocks[i].span_left
          /\ blocks'[i].span_right >= blocks[i].span_right]_vars

\* C9 (amended): after a record is linked its bounds are changed only by a
\* committed allocator shift, and a shift leaves each of span_left and
\* span_right unchanged or raises it by exactly 1 (span_left is shifted
\* as well, it is not frozen).
C9_SpanShiftOnly ==
    [][\A i \in LinkedIds(blocks) :
          /\ blocks'[i].span_left \in
                {blocks[i].span_left, blocks[i].span_left + 1}
          /\ blocks'[i].span_right \in
                {blocks[i].span_right, blocks[i].span_right + 1}
          /\ ( \/ blocks'[i].span_left # blocks[i].span_left
               \/ blocks'[i].span_right # blocks[i].span_right )
             => pc = "right_done" /\ pc' = "scan"]_vars

\* a record linked with interval (0,0) has had both bounds shifted twice
C9_Witness ==
    \E i \in LinkedIds(blocks) :
        /\ i # 1
        /\ IsSet(atArrival[i])
        /\ atArrival[i].span_left = 0
        /\ blocks[i].span_left = 2
        /\ blocks[i].span_right = 2

\* both bulk updates of a shift at slot s lead from table b to table c
ShiftedBoth(b, c, s) ==
    /\ Len(c) = Len(b)
    /\ \A i \in Ids(b) :
        /\ c[i].depth = b[i].depth
        /\ c[i].span_left =
              IF IsSet(b[i]) /\ b[i].span_left >= s
              THEN b[i].span_left + 1 ELSE b[i].span_left
        /\ c[i].span_right =
              IF IsSet(b[i]) /\ b[i].span_right >= s
              THEN b[i].span_right + 1 ELSE b[i].span_right

SpansKept(b, c) ==
    \A i \in LinkedIds(b) :
        /\ c[i].span_left = b[i].span_left
        /\ c[i].span_right = b[i].span_right

\* C10 (atomic shift): the committed table never shows one of the two bulk
\* updates without the other: every committed state has
\* span_left <= span_right for every linked record, every step leaves the
\* committed bounds of the linked records alone or applies both updates of
\* one shift, and a failure inside the guard leaves the committed table as
\* it was when the guard was opened.
C10_AtomicShift ==
    /\ [](\A i \in LinkedIds(blocks) :
             blocks[i].span_left <= blocks[i].span_right)
    /\ [][ /\ \/ SpansKept(blocks, blocks')
              \/ \E s \in 0..MaxSpan : ShiftedBoth(blocks, blocks', s)
           /\ pc \in {"guard", "left_done", "right_done"}
              => \/ blocks' = blocks
                 \/ pc' = "scan" /\ ShiftedBoth(blocks, blocks', chain_id)
         ]_vars

\* a failure struck between the two updates of a shift, after an earlier
\* shift had been committed
C10_Witness ==
    /\ last.op = "failure_between"
    /\ pc = "idle"
    /\ \E i \in LinkedIds(blocks) : blocks[i].span_left >= 1
    /\ blocks = start

\* some linked row is an ancestor of row i
Resolves(b, i) == \E a \in LinkedIds(b) : IsAncestor(b, a, i)

\* number of pending rows from row i up to its first linked ancestor
RECURSIVE UnresolvedWithin(_, _, _)
UnresolvedWithin(b, i, n) ==
    IF IsSet(b[i]) \/ n = 0 \/ ParentsOf(b, i) = {} THEN 0
    ELSE 1 + UnresolvedWithin(b, CHOOSE j \in ParentsOf(b, i) : TRUE, n - 1)

LongestUnresolved(b) ==
    LET lens == {UnresolvedWithin(b, i, Len(b)) : i \in Ids(b)}
    IN  CHOOSE m \in lens : \A k \in lens : k <= m

\* C2 (fixed-point convergence): when every record pending after the latest
\* arrival has an ancestor chain ending in a linked record, then after as
\* many completed invocations as the longest unresolved chain is long every
\* record is linked (records sharing a parent included).
C2_FixedPointConvergence ==
    ( /\ pc = "idle"
      /\ \A i \in Ids(atArrival) :
            IsSet(atArrival[i]) \/ Resolves(atArrival, i)
      /\ passes >= LongestUnresolved(atArrival) )
    => \A i \in Ids(blocks) : IsSet(blocks[i])

\* Scenario 2: root (0,0), B1 linked below it at depth 1 with (0,0), B2
\* pending with the root as its parent
Scenario2(b) ==
    /\ Len(b) = 3
    /\ b[1].depth = 0 /\ b[1].span_left = 0 /\ b[1].span_right = 0
    /\ b[2].prev_block_hash = b[1].block_hash
    /\ b[2].depth = 1 /\ b[2].span_left = 0 /\ b[2].span_right = 0
    /\ b[3].prev_block_hash = b[1].block_hash
    /\ ~IsSet(b[3])

\* C3 (fork at the root): from Scenario 2 the first invocation leaves B1
\* linked and B2 pending and runs the allocator shift; the second links B2
\* at depth 1 with a chain id other than B1's, and the root's interval is
\* (0,1).
C3_ForkAtRoot ==
    (Scenario2(atArrival) /\ pc = "idle")
    => /\ passes = 1
          => /\ blocks[2].depth = 1
             /\ ~IsSet(blocks[3])
             /\ ShiftedBoth(atArrival, blocks, 0)
       /\ passes = 2
          => /\ blocks[3].depth = 1
             /\ blocks[3].span_left = blocks[3].span_right
             /\ blocks[3].span_left # blocks[2].span_left
             /\ blocks[1].span_left = 0 /\ blocks[1].span_right = 1

\* C4 as stated: the second of two invocations in succession, no record
\* created in between, changes no field of any record.
C4_Idempotence ==
    (last.op = "end" /\ passes >= 2) => blocks = start

\* C4 (amended): an invocation that begins when no pending record's
\* prev_hash is the hash of a linked record changes no field of any record
\* (so a second invocation in succession changes nothing once the first
\* has left no such record).
C4_IdempotentAtFixedPoint ==
    (last.op = "end" /\ Linkable(start) = {}) => blocks = start

\* the second invocation in succession has completed over a store holding
\* a linked chain and a pending record without a linked parent
C4_Witness ==
    /\ last.op = "end"
    /\ passes >= 2
    /\ Linkable(start) = {}
    /\ \E i \in Ids(start) : ~IsSet(start[i])
    /\ \E k \in LinkedIds(start) : k # 1

\* the linked rows whose prev_hash is the hash of row j
LinkedChildren(b, j) == {k \in LinkedIds(b) : j \in ParentsOf(b, k)}

\* the rows on the prev_hash path from row i up to its ancestor a, both ends
\* included
PathBetween(b, a, i) ==
    {j \in Ids(b) :
        /\ j = a \/ IsAncestor(b, a, j)
        /\ j = i \/ IsAncestor(b, j, i)}

\* a (an ancestor of i, or i itself) and i lie on one branch none of whose
\* rows has two linked children
OnUnforkedBranch(b, a, i) ==
    /\ a = i \/ IsAncestor(b, a, i)
    /\ \A j \in PathBetween(b, a, i) : Cardinality(LinkedChildren(b, j)) <= 1

\* C11 (chain-id sharing): every linked record on a branch without a fork
\* has span_left = span_right, and two linked records on the same such
\* branch carry the same value.
C11_ChainIdSharing ==
    \A a \in LinkedIds(blocks), i \in LinkedIds(blocks) :
        OnUnforkedBranch(blocks, a, i) =>
            /\ blocks[a].span_left = blocks[a].span_right
            /\ blocks[i].span_left = blocks[i].span_right
            /\ blocks[a].span_left = blocks[i].span_left

\* three records are linked in a row, below one another, and their common
\* chain id has been shifted
C11_Witness ==
    \E a \in LinkedIds(blocks), i \in LinkedIds(blocks) :
        /\ OnUnforkedBranch(blocks, a, i)
        /\ Cardinality(PathBetween(blocks, a, i)) = 3
        /\ blocks[i].span_left >= 1

\* C12 (frame of organize_blockchain): a step of organize_blockchain creates
\* and deletes no record and changes no block_id, hash or prev_hash; the
\* only rows it changes are the pending record it links and linked records
\* whose bounds an allocator shift moves (their depth stays).
C12_OrganizeFrame ==
    [][~(pc = "idle" /\ pc' = "idle") =>
          /\ Len(blocks') = Len(blocks)
          /\ \A i \in Ids(blocks) :
                /\ blocks'[i].block_id = blocks[i].block_id
                /\ blocks'[i].block_hash = blocks[i].block_hash
                /\ blocks'[i].prev_block_hash = blocks[i].prev_block_hash
                /\ blocks'[i] # blocks[i] =>
                      \/ /\ ~IsSet(blocks[i]) /\ IsSet(blocks'[i])
                         /\ last'.op = "link" /\ last'.id = i
                      \/ /\ IsSet(blocks[i])
                         /\ blocks'[i].depth = blocks[i].depth
                         /\ last.op = "fork" /\ last'.op = "fork"]_vars

\* within one invocation a record has been linked and a shift has moved the
\* bounds of the rows linked before
C12_Witness ==
    /\ pc = "scan"
    /\ last.op = "fork"
    /\ \E i \in Ids(blocks) : ~IsSet(start[i]) /\ IsSet(blocks[i])
    /\ \E i \in LinkedIds(start) : blocks[i].span_left > start[i].span_left

\* the fork test of the spec for a linked row j: some linked row lies inside
\* j's interval (bounds included) at a greater depth
ForkTest(b, j) ==
    \E k \in LinkedIds(b) :
        /\ b[k].span_left >= b[j].span_left
        /\ b[k].span_right <= b[j].span_right
        /\ b[k].depth > b[j].depth

\* C13 (fork step effect): when the fork test holds for the linked parent of
\* the evaluated record, the step takes slot = parent.span_right, and what it
\* commits is span_left + 1 for every linked record with span_left >= slot
\* and span_right + 1 for every linked record with span_right >= slot;
\* every other bound, every depth and every pending record, the evaluated
\* one included, is unchanged.
C13_ForkStepEffect ==
    [][ /\ \A i \in Ids(blocks), j \in LinkedIds(blocks) :
              ( /\ pc = "scan" /\ queue # <<>> /\ Head(queue) = i
                /\ j \in ParentsOf(blocks, i)
                /\ ForkTest(blocks, j) )
              => /\ pc' = "guard"
                 /\ chain_id' = blocks[j].span_right
                 /\ blocks' = blocks
        /\ (pc \in {"guard", "left_done"}) => blocks' = blocks
        /\ (pc = "right_done" /\ pc' = "scan")
           => \E j \in LinkedIds(blocks) :
                 /\ j \in ParentsOf(blocks, Head(queue))
                 /\ ShiftedBoth(blocks, blocks', blocks[j].span_right)
                 /\ ~IsSet(blocks'[Head(queue)])
                 /\ \A i \in Ids(blocks) :
                       ~IsSet(blocks[i]) => blocks'[i] = blocks[i]
      ]_vars

\* the second shift for a record that forks at its parent has just been
\* committed, the record itself is still pending
C13_Witness ==
    /\ pc = "scan"
    /\ last.op = "fork"
    /\ ~IsSet(blocks[last.id])
    /\ ShiftedBoth(start, blocks, 1)
    /\ \E i \in LinkedIds(blocks) : blocks[i].span_left = 2

\* row j has a linked descendant along prev_hash
HasLinkedDescendant(b, j) == \E k \in LinkedIds(b) : IsAncestor(b, j, k)

\* C14 (fork check meaning): in every reachable state the fork test the
\* code evaluates for a linked parent P is true exactly when P has a linked
\* descendant, that is when P is not the tip of its chain.
C14_ForkCheckMeaning ==
    \A j \in LinkedIds(blocks) :
        HasChildren(blocks, blocks[j].span_left, blocks[j].span_right,
                    blocks[j].depth)
        <=> HasLinkedDescendant(blocks, j)

\* after a shift the test is true for an interior record of the chain and
\* false for its tip
C14_Witness ==
    \E j \in LinkedIds(blocks), t \in LinkedIds(blocks) :
        /\ j # 1 /\ blocks[j].span_left >= 1
        /\ HasLinkedDescendant(blocks, j)
        /\ ForkTest(blocks, j)
        /\ IsAncestor(blocks, j, t)
        /\ ~HasLinkedDescendant(blocks, t)
        /\ ~ForkTest(blocks, t)

\* the elements of a set of block_ids in ascending order
RECURSIVE Ascending(_)
Ascending(S) ==
    IF S = {} THEN <<>>
    ELSE LET m == CHOOSE x \in S : \A y \in S : x <= y
         IN  <<m>> \o Ascending(S \ {m})

IsPrefix(p, q) == Len(p) <= Len(q) /\ \A k \in 1..Len(p) : p[k] = q[k]

PendingAtStart == Ascending({i \in Ids(start) : ~IsSet(start[i])})

\* length of the chain of pending rows that starts at row i and climbs
\* through pending parents stored after their child
RECURSIVE ChildFirstChain(_, _)
ChildFirstChain(b, i) ==
    IF IsSet(b[i]) THEN 0
    ELSE LET up == {j \in ParentsOf(b, i) : j > i /\ ~IsSet(b[j])}
         IN  IF up = {} THEN 1
             ELSE 1 + ChildFirstChain(b, CHOOSE j \in up : TRUE)

\* C15 (scan order): an invocation evaluates the records pending at its
\* start once each in ascending block_id order (all of them when it
\* returns); a record is linked only below a parent that was linked when the
\* invocation began or that has a smaller block_id and was linked earlier in
\* the same invocation; and a chain of n pending records stored child before
\* parent is not fully linked in fewer than n invocations.
C15_ScanOrder ==
    /\ [](/\ IsPrefix(seen, PendingAtStart)
          /\ (last.op = "end") => seen = PendingAtStart
          /\ \A i \in Ids(blocks) :
                (~IsSet(atArrival[i]) /\ IsSet(blocks[i]))
                => calls >= ChildFirstChain(atArrival, i))
    /\ [][\A i \in Ids(blocks) :
             (~IsSet(blocks[i]) /\ IsSet(blocks'[i]))
             => \E j \in ParentsOf(blocks, i) :
                   \/ IsSet(start[j])
                   \/ /\ j < i
                      /\ IsSet(blocks[j])
                      /\ \E k \in 1..Len(seen) : seen[k] = j]_vars

\* a chain of two records stored child before parent has been linked by the
\* second invocation, which evaluated the child
C15_Witness ==
    /\ last.op = "end"
    /\ calls = 2
    /\ \E i \in Ids(blocks) :
        /\ ChildFirstChain(atArrival, i) = 2
        /\ IsSet(blocks[i])
        /\ \E k \in 1..Len(seen) : seen[k] = i

\* C16 (assertion validity): in every reachable state a linked parent for
\* which the code takes the no-fork branch has span_left = span_right, and
\* BITCOIN_ASSERT(parent_span_left == parent_span_right) has never failed.
C16_AssertionValid ==
    /\ pc # "aborted"
    /\ last.op # "assert"
    /\ \A j \in LinkedIds(blocks) :
          ~HasChildren(blocks, blocks[j].span_left, blocks[j].span_right,
                       blocks[j].depth)
          => blocks[j].span_left = blocks[j].span_right

\* the no-fork branch has just linked a record below a parent whose interval
\* two shifts had moved, and the scan goes on
C16_Witness ==
    /\ pc = "scan"
    /\ last.op = "link"
    /\ \E j \in ParentsOf(blocks, last.id) :
        /\ blocks[j].span_left = 2
        /\ blocks[j].span_right = 2
        /\ blocks[j].depth >= 1

\* C17 (block arrival): a store(block) step either changes nothing (the hash
\* is in the table) or adds exactly one record, with a block_id above all
\* existing ones, depth and interval unset and a hash no record had, and
\* leaves the existing records as they were; so no two records ever share a
\* hash.
C17_BlockArrival ==
    /\ [](\A i \in Ids(blocks), j \in Ids(blocks) :
             blocks[i].block_hash = blocks[j].block_hash => i = j)
    /\ [][(pc = "idle" /\ pc' = "idle") =>
             \/ blocks' = blocks
             \/ /\ Len(blocks') = Len(blocks) + 1
                /\ \A i \in Ids(blocks) :
                      /\ blocks'[i] = blocks[i]
                      /\ blocks'[Len(blocks')].block_id > blocks[i].block_id
                      /\ blocks'[Len(blocks')].block_hash
                            # blocks[i].block_hash
                /\ blocks'[Len(blocks')].depth = NULL
                /\ blocks'[Len(blocks')].span_left = NULL
                /\ blocks'[Len(blocks')].span_right = NULL]_vars

\* a block whose hash is in the table has just been dropped, after three
\* blocks were stored and one of them linked
C17_Witness ==
    /\ last.op = "store_dup"
    /\ Len(blocks) = 4
    /\ \E i \in LinkedIds(blocks) : i # 1
    /\ \E i \in Ids(blocks) : ~IsSet(blocks[i])

\* C18 (single linear chain): no linked record has more than one linked
\* child, and the depths of the linked records are pairwise distinct and
\* are exactly 0..n.
C18_SingleLinearChain ==
    /\ \A j \in LinkedIds(blocks) :
          Cardinality(LinkedChildren(blocks, j)) <= 1
    /\ \A a \in LinkedIds(blocks), i \in LinkedIds(blocks) :
          blocks[a].depth = blocks[i].depth => a = i
    /\ {blocks[i].depth : i \in LinkedIds(blocks)}
          = 0..(Cardinality(LinkedIds(blocks)) - 1)

\* two invocations have left a record that forks at the root pending, next
\* to a linked chain of three records
C18_Witness ==
    /\ pc = "idle"
    /\ passes >= 2
    /\ Cardinality(LinkedIds(blocks)) = 3
    /\ \E i \in Ids(blocks) :
        /\ ~IsSet(blocks[i])
        /\ 1 \in ParentsOf(blocks, i)
        /\ Cardinality(LinkedChildren(blocks, 1)) = 1

\* C19 (no link without a linked parent): a step links a record only if its
\* prev_hash is the hash of a linked record; so while the table holds no
\* linked record, no step of organize_blockchain changes the table, every
\* record stays pending and no assertion fails.
C19_NoLinkWithoutLinkedParent ==
    /\ [][\A i \in Ids(blocks) :
             (~IsSet(blocks[i]) /\ IsSet(blocks'[i]))
             => \E j \in ParentsOf(blocks, i) : IsSet(blocks[j])]_vars
    /\ [][LinkedIds(blocks) = {} =>
             /\ LinkedIds(blocks') = {}
             /\ pc' # "aborted"
             /\ ~(pc = "idle" /\ pc' = "idle") => blocks' = blocks]_vars

\* two invocations have completed over a table without any linked record
\* that holds a pending record and its pending parent
C19_Witness ==
    /\ last.op = "end"
    /\ passes >= 2
    /\ LinkedIds(blocks) = {}
    /\ \E i \in Ids(blocks), j \in Ids(blocks) : j \in ParentsOf(blocks, i)
    /\ Len(seen) = Len(blocks)

====
